---- MODULE Spec2Model ----
(***************************************************************************)
(* A state-machine model of LoggerApp.py, the Kafka reverse proxy:         *)
(*   - KafkaHandler: the ingestion thread (run), the per-topic deques      *)
(*     (dumps), the socket.io connect handler (on_connect);                *)
(*   - KafkaReverseProxy.export_csv_for_topic: the bounded export.         *)
(* The broker is a set of append-only single-partition logs.               *)
(***************************************************************************)
EXTENDS Integers, Sequences, FiniteSets, TLC

(***************************************************************************)
(* Sizes.  The deque capacity (100 in the source, line 31) and the export  *)
(* window (10 ** 5, line 126) are scaled down so that eviction and window  *)
(* clamping happen within a few records; every formula below is stated in  *)
(* terms of these names, never of their values.                            *)
(***************************************************************************)
maxlen == 2

max_messages == 2

\* Records the producers may append, over all topics and the whole run.
MaxLog == 3

\* Earliest available offset of a partition whose head was already deleted
\* by the broker's retention before the process started.
RetainedFrom == 3

\* src/LoggerApp.py:18 -- the topic list, in order (two of its thirteen names).
topics == <<"buyOffer", "marketSituation">>

Topics == {topics[i] : i \in 1..Len(topics)}

TopicIndex(t) == CHOOSE i \in 1..Len(topics) : topics[i] = t

Subscribers == {"s1"}

\* Two clients: the second one's connection runs next to the first one's.
Clients == Subscribers \cup {"s2"}

\* The client whose connection is followed: for it the model remembers what
\* the ingestion thread had done when it connected.
Observed == Clients \ Subscribers

Max(a, b) == IF a >= b THEN a ELSE b

\* Python's None: an absent credential, and what json.loads makes of null.
None == "None"

(***************************************************************************)
(* Payloads.  A record's value is a byte string; what matters of it is     *)
(* whether it decodes as UTF-8, whether the text parses as JSON, and the   *)
(* JSON document it then is.  Field values are kept as JSON text.          *)
(***************************************************************************)
JObject(f) == [bytes |-> "json", type |-> "object", fields |-> f]

P_plain == JObject([amount |-> "1"])

P_m1_200 == JObject([merchant_id |-> "\"id1\"", http_code |-> "200"])

P_m2_404 == JObject([merchant_id |-> "\"id2\"", http_code |-> "404"])

P_mnull == JObject([merchant_id |-> "null"])

P_number == [bytes |-> "json", type |-> "number", fields |-> [n |-> "5"]]

P_notjson == [bytes |-> "notjson", type |-> "none", fields |-> [n |-> "{"]]

Payloads == {P_plain, P_m1_200, P_m2_404, P_mnull, P_number, P_notjson}

\* The producers' traffic: every topic carries the payloads in this cyclic
\* order; `feed` is where in the cycle the first topic starts, and each
\* further topic starts one place later.
FeedCycle == <<P_plain, P_m1_200, P_mnull, P_m2_404, P_notjson, P_number>>

FeedAt(from, n) == FeedCycle[((from + n) % Len(FeedCycle)) + 1]

\* json.loads(msg.value.decode('utf-8')): the parsed Python value, or the
\* exception raised.  JSON text becomes a Python value: null becomes None,
\* a number an int, a string loses its quotes.
json_value(txt) ==
    IF txt = "null" THEN None
    ELSE IF txt = "200" THEN "int:200"
    ELSE IF txt = "404" THEN "int:404"
    ELSE IF txt = "1" THEN "int:1"
    ELSE IF txt = "5" THEN "int:5"
    ELSE IF txt = "\"id1\"" THEN "str:id1"
    ELSE IF txt = "\"id2\"" THEN "str:id2"
    ELSE "str:" \o txt

json_loads(raw) ==
    IF raw.bytes # "json"
    THEN [exc |-> "ValueError", type |-> "none", fields |-> [n |-> None]]
    ELSE IF raw.type = "object"
    THEN [exc |-> "none", type |-> "dict",
          fields |-> [k \in DOMAIN raw.fields |-> json_value(raw.fields[k])]]
    ELSE [exc |-> "none", type |-> "int",
          fields |-> [k \in DOMAIN raw.fields |-> json_value(raw.fields[k])]]

\* `key in msg_json`: a membership test on a dict; on an int it raises
\* TypeError.
py_in_raises(v) == v.type # "dict"

py_in(key, v) == key \in DOMAIN v.fields

VARIABLES
    feed,       \* where in FeedCycle the producers start
    log,        \* the broker: per topic, [start, recs]
    phase,      \* "boot" before KafkaReverseProxy() has run, then "serving"
    end_offset, \* KafkaHandler.__init__'s end_offset dict
    first,      \* where the ingestion consumer started reading, per topic
    position,   \* the ingestion consumer's position, per topic
    dumps,      \* KafkaHandler.dumps: per topic, a deque
    run_pc,     \* the ingestion thread: "fetch" (line 47) or "emit" (line 61)
    run_out,    \* the ingestion thread's local `output`
    subs,       \* per subscriber: connection state and what it was sent; since
                \* and pending remember, for an observed client, the ingestion
                \* thread's position and its not yet emitted output when the
                \* client connected
    ex,         \* the export request: export_csv_for_topic's locals and effects
    st,         \* the status request: KafkaHandler.status's locals
    shaper      \* a call of market_situation_shaper: its argument and result

vars == <<feed, log, phase, end_offset, first, position, dumps, run_pc, run_out, subs, ex, st, shaper>>

\* The ingestion side of the state, which no export touches.
ingest_vars == <<end_offset, first, position, dumps, run_pc, run_out, subs>>

LogEnd(t) == log[t].start + Len(log[t].recs)

RecordAt(t, off) == log[t].recs[off - log[t].start + 1]

Produced == Len(log[topics[1]].recs) + Len(log[topics[2]].recs)

NoOutput == [topic |-> "", timestamp |-> -1, value |-> json_loads(P_notjson)]

NoResponse == [kind |-> "none", text |-> ""]

\* No export request yet.  opened, closed, seeks, reads and files count the
\* readers opened and closed, the seeks and reads made on them and the files
\* written on behalf of the request; decoded lists the offsets of the records
\* handed to json.loads, raised names the exception that reached line 155.
NoExport ==
    [pc |-> "idle", topic |-> "", merchant_id |-> None,
     start_offset |-> 0, end_offset |-> 0, seeked |-> 0, offset |-> 0, at |-> 0,
     msgs |-> <<>>, decoded |-> <<>>, timed_out |-> FALSE, raised |-> "none",
     response |-> NoResponse,
     opened |-> 0, closed |-> 0, seeks |-> 0, reads |-> 0, files |-> 0]

\* No status request yet.
NoStatus ==
    [pc |-> "idle", idx |-> 1, messages |-> 0, nonempty |-> FALSE,
     status_dict |-> <<>>]

\* No call of market_situation_shaper.
NoShaper == [pc |-> "idle", list_of_msgs |-> <<>>, expanded_offers |-> <<>>]

Init ==
    /\ feed \in 0..(Len(FeedCycle) - 1)
    /\ log \in [Topics -> {[start |-> s, recs |-> <<>>] : s \in {0, RetainedFrom}}]
    /\ phase = "boot"
    /\ end_offset = [t \in Topics |-> 0]
    /\ first = [t \in Topics |-> 0]
    /\ position = [t \in Topics |-> 0]
    /\ dumps = [t \in Topics |-> <<>>]
    /\ run_pc = "fetch"
    /\ run_out = NoOutput
    /\ subs = [s \in Subscribers |->
                 [pc |-> "idle", registered |-> FALSE, idx |-> 1,
                  messages |-> <<>>, inbox |-> <<>>,
                  since |-> [t \in Topics |-> 0], pending |-> NoOutput]]
    /\ ex = NoExport
    /\ st = NoStatus
    /\ shaper = NoShaper

\* A producer appends one record to a topic; the broker gives it the next
\* offset and a timestamp (here the offset, so that the timestamps of a
\* partition tell its records apart).
Produce(t) ==
    /\ Produced < MaxLog
    /\ log' = [log EXCEPT ![t].recs =
                 Append(@, [offset |-> LogEnd(t), timestamp |-> LogEnd(t),
                            value |-> FeedAt(feed + TopicIndex(t), Len(log[t].recs))])]
    /\ UNCHANGED <<feed, phase, end_offset, first, position, dumps, run_pc, run_out, subs, ex, st, shaper>>

\* KafkaHandler.__init__: one empty deque per topic, the end offsets read
\* with seek_to_end, then the seek to max(0, end - maxlen); the thread starts.
KafkaHandler_init ==
    /\ phase = "boot"
    /\ phase' = "serving"
    /\ end_offset' = [t \in Topics |-> LogEnd(t)]
    /\ position' = [t \in Topics |-> Max(0, LogEnd(t) - maxlen)]
    /\ first' = position'
    /\ dumps' = [t \in Topics |-> <<>>]
    /\ UNCHANGED <<feed, log, run_pc, run_out, subs, ex, st, shaper>>

\* Mutant of deque_append: a full buffer refuses the new message.
deque_append_keeps_old(d, x) ==
    IF Len(d) >= maxlen THEN d ELSE Append(d, x)

\* collections.deque(maxlen=...).append: at capacity the head is dropped.
deque_append(d, x) ==
    IF Len(d) >= maxlen THEN Tail(Append(d, x)) ELSE Append(d, x)

\* json.dumps(output): the text sent on the wire for a live message, which
\* the client parses back.
json_dumps(output) == [json |-> output]

json_parse(text) == text.json

\* Mutant of run_outcome: the http_code filter of line 50 is missing.
run_outcome_unfiltered(msg) ==
    LET msg_json == json_loads(msg.value) IN
    IF msg_json.exc # "none" THEN "error"
    ELSE IF py_in_raises(msg_json) THEN "error"
    ELSE "accepted"

\* What run() does with one record, lines 48-63: "error" when the try block
\* raises (any Exception is caught and printed), "dropped" on the http_code
\* filter, else "accepted".
run_outcome(msg) ==
    LET msg_json == json_loads(msg.value) IN
    IF msg_json.exc # "none" THEN "error"
    ELSE IF py_in_raises(msg_json) THEN "error"
    ELSE IF py_in("http_code", msg_json) /\ msg_json.fields["http_code"] # "int:200"
    THEN "dropped"
    ELSE "accepted"

\* Mutant of run_after: the exception of a failing record is not caught and
\* ends the thread.
run_after_uncaught(outcome) ==
    IF outcome = "accepted" THEN "emit"
    ELSE IF outcome = "error" THEN "dead"
    ELSE "fetch"

\* Where run() goes after a record, lines 48-63: on to the emit of line 61
\* when the record was accepted; back to the head of the loop after the
\* `continue` of line 51 and after the `except Exception` of line 62.
run_after(outcome) ==
    IF outcome = "accepted" THEN "emit" ELSE "fetch"

run_output(t, msg) ==
    [topic |-> t, timestamp |-> msg.timestamp, value |-> json_loads(msg.value)]

\* The consumer's position lies below the partition's earliest offset: the
\* fetch is out of range and the consumer resets to the end of the log
\* (KafkaConsumer's default auto_offset_reset='latest').
run_offset_reset(t) ==
    /\ phase = "serving"
    /\ run_pc = "fetch"
    /\ position[t] < log[t].start
    /\ position' = [position EXCEPT ![t] = LogEnd(t)]
    /\ first' = [first EXCEPT ![t] = LogEnd(t)]
    /\ UNCHANGED <<feed, log, phase, end_offset, dumps, run_pc, run_out, subs, ex, st, shaper>>

\* run(), lines 47-59: the consumer yields the next record of some assigned
\* partition; it is decoded, filtered and appended to its topic's deque.
run_fetch(t) ==
    /\ phase = "serving"
    /\ run_pc = "fetch"
    /\ position[t] >= log[t].start
    /\ position[t] < LogEnd(t)
    /\ LET msg == RecordAt(t, position[t]) IN
         /\ position' = [position EXCEPT ![t] = @ + 1]
         /\ run_pc' = run_after(run_outcome(msg))
         /\ IF run_outcome(msg) = "accepted"
            THEN /\ dumps' = [dumps EXCEPT ![t] = deque_append(@, run_output(t, msg))]
                 /\ run_out' = run_output(t, msg)
            ELSE UNCHANGED <<dumps, run_out>>
    /\ UNCHANGED <<feed, log, phase, end_offset, first, subs, ex, st, shaper>>

\* Mutant of channel_send: the packet overtakes what is already queued.
channel_send_overtaking(inbox, packet) == <<packet>> \o inbox

\* The transport's per-client channel: what is sent to a client arrives in
\* the order it was sent.
channel_send(inbox, packet) == Append(inbox, packet)

\* Mutant of broadcast: the message is emitted to a room the client joins
\* only once its connect handler has returned, and does not reach it.
broadcast_to_unjoined_room(inbox, output) == inbox

\* Mutant of broadcast: the message is handed to a worker that delivers it
\* only after the next message (it is queued before the last packet).
broadcast_deferred(inbox, output) ==
    LET packet == [event |-> output.topic, kind |-> "live",
                   data |-> <<json_dumps(output)>>] IN
    IF inbox = <<>> THEN <<packet>>
    ELSE SubSeq(inbox, 1, Len(inbox) - 1) \o <<packet, inbox[Len(inbox)]>>

\* socketio.emit(str(msg.topic), output_json, namespace='/') as one connected
\* client sees it: the live message is queued on its channel.
broadcast(inbox, output) ==
    channel_send(inbox, [event |-> output.topic, kind |-> "live",
                         data |-> <<json_dumps(output)>>])

\* run(), line 61: socketio.emit(topic, output_json, namespace='/') goes to
\* every client connected to the namespace.
run_emit ==
    /\ run_pc = "emit"
    /\ subs' = [s \in DOMAIN subs |->
                  IF subs[s].registered
                  THEN [subs[s] EXCEPT !.inbox = broadcast(@, run_out)]
                  ELSE subs[s]]
    /\ run_pc' = "fetch"
    /\ run_out' = NoOutput
    /\ UNCHANGED <<feed, log, phase, end_offset, first, position, dumps, ex, st, shaper>>

\* A client connects: socket.io adds it to the namespace, so that broadcasts
\* reach it, and then calls the 'connect' handler (line 99).
connect(s) ==
    /\ phase = "serving"
    /\ subs[s].pc = "idle"
    /\ subs' = [subs EXCEPT ![s].registered = TRUE, ![s].pc = "snapshot", ![s].idx = 1,
                             ![s].since = IF s \in Observed THEN position ELSE @,
                             ![s].pending = IF s \in Observed THEN run_out ELSE @]
    /\ UNCHANGED <<feed, log, phase, end_offset, first, position, dumps, run_pc, run_out, ex, st, shaper>>

\* Mutant of deque_list: the copy is taken while an append to a full deque
\* is under way, after the head was dropped and before the new message shows.
deque_list_torn(d) == IF Len(d) >= maxlen THEN Tail(d) ELSE d

\* list(deque): a copy of the deque's elements, oldest first.  The copy and
\* deque.append are each one call into the interpreter's C code, which holds
\* the interpreter lock throughout, so the copy sees the deque between two
\* appends.
deque_list(d) == [i \in 1..Len(d) |-> d[i]]

\* on_connect, line 70: messages = list(self.dumps[msg_topic]).
on_connect_snapshot(s) ==
    /\ subs[s].pc = "snapshot"
    /\ subs' = [subs EXCEPT ![s].messages = deque_list(dumps[topics[subs[s].idx]]),
                             ![s].pc = "emit"]
    /\ UNCHANGED <<feed, log, phase, end_offset, first, position, dumps, run_pc, run_out, ex, st, shaper>>

\* Mutant of emit_recipients: the batch is broadcast to the namespace.
emit_recipients_broadcast(s) == {c \in DOMAIN subs : subs[c].registered}

\* flask_socketio.emit called in an event handler without room or broadcast
\* (line 71): the packet goes to the client whose event is being handled.
emit_recipients(s) == {s}

\* on_connect, line 71: emit(msg_topic, messages, namespace='/') answers the
\* connecting client only; the loop then moves to the next topic.
on_connect_emit(s) ==
    /\ subs[s].pc = "emit"
    /\ LET packet == [event |-> topics[subs[s].idx], kind |-> "batch",
                      data |-> subs[s].messages]
           sent == [c \in DOMAIN subs |->
                      IF c \in emit_recipients(s)
                      THEN [subs[c] EXCEPT !.inbox = channel_send(@, packet)]
                      ELSE subs[c]]
       IN subs' = [sent EXCEPT
                     ![s].messages = <<>>,
                     ![s].idx = @ + 1,
                     ![s].pc = IF subs[s].idx < Len(topics) THEN "snapshot" ELSE "done"]
    /\ UNCHANGED <<feed, log, phase, end_offset, first, position, dumps, run_pc, run_out, ex, st, shaper>>

(***************************************************************************)
(* KafkaReverseProxy.export_csv_for_topic, lines 101-158.                  *)
(***************************************************************************)
\* The Authorization header as its space-separated words; absent is <<>>.
AuthHeaders == {<<>>, <<"Bearer", "token1">>}

ExportTopics == Topics \cup {"unknownTopic"}

\* calculate_id, line 198: base64 of the token's SHA-256 digest.  "token1" is
\* the token of the merchant whose id the payloads carry as "id1".
calculate_id(token) ==
    IF token = "token1" THEN "str:id1" ELSE "str:sha256:" \o token

\* Lines 102-104: the last word of the header is the token; no header, or an
\* empty token, gives None.
request_merchant_id(auth_header) ==
    LET merchant_token ==
            IF auth_header # <<>> THEN auth_header[Len(auth_header)] ELSE None
    IN IF merchant_token # None /\ merchant_token # ""
       THEN calculate_id(merchant_token) ELSE None

\* Mutant of topic_known: the check of line 106 is missing.
topic_known_unchecked(topic) == TRUE

\* Line 106: topic in topics.
topic_known(topic) == topic \in Topics

\* The partition a reader is assigned; one of an unknown topic has no records.
PartitionOf(topic) ==
    IF topic \in Topics THEN log[topic] ELSE [start |-> 0, recs |-> <<>>]

PartitionEnd(topic) == PartitionOf(topic).start + Len(PartitionOf(topic).recs)

\* Mutant of export_window_start: the window is not clamped to the earliest
\* available offset.
export_window_start_unclamped(start_offset, last_offset) ==
    last_offset - max_messages

\* Line 127: offset = max(start_offset, end_offset - max_messages).
export_window_start(start_offset, last_offset) ==
    Max(start_offset, last_offset - max_messages)

\* Mutant of export_past_end: the loop stops one record too early.
export_past_end_early(offset, last_offset) == offset + 1 >= last_offset

\* Mutant of export_past_end: the loop stops one record too late.
export_past_end_late(offset, last_offset) == offset > last_offset

\* Line 134: if offset >= end_offset: break.
export_past_end(offset, last_offset) == offset >= last_offset

\* Mutant of export_outcome: the merchant filter of line 140 is missing.
export_outcome_unfiltered(msg, merchant_id) ==
    LET msg_json == json_loads(msg.value) IN
    IF msg_json.exc = "ValueError" THEN "skipped"
    ELSE IF py_in_raises(msg_json) THEN "TypeError"
    ELSE "kept"

\* Lines 137-143, what the loop does with one record: "skipped" when decoding
\* raises ValueError (caught and printed), "TypeError" when the membership
\* test raises (not caught in the loop), "kept" or "filtered" by merchant.
export_outcome(msg, merchant_id) ==
    LET msg_json == json_loads(msg.value) IN
    IF msg_json.exc = "ValueError" THEN "skipped"
    ELSE IF py_in_raises(msg_json) THEN "TypeError"
    ELSE IF ~py_in("merchant_id", msg_json) \/ msg_json.fields["merchant_id"] = merchant_id
    THEN "kept"
    ELSE "filtered"

\* market_situation_shaper, lines 188-193, as far as it can fail: indexing a
\* message without 'offers' raises KeyError.
market_situation_shaper_raises(msgs) ==
    \E i \in 1..Len(msgs) : ~py_in("offers", msgs[i].value)

\* Mutant of export_error_response: the handler answers as if the export had
\* succeeded.
export_error_response_locator(e) == [kind |-> "url", text |-> "data/" \o e]

\* Lines 155-156: response = {'error': 'failed with: ' + str(e)}.
export_error_response(e) == [kind |-> "error", text |-> "failed with: " \o e]

\* Lines 101-107: the request arrives; an unknown topic is answered at once.
export_request(topic, auth_header) ==
    /\ phase = "serving"
    /\ ex.pc = "idle"
    /\ IF ~topic_known(topic)
       THEN ex' = [ex EXCEPT !.topic = topic,
                             !.merchant_id = request_merchant_id(auth_header),
                             !.response = [kind |-> "error", text |-> "unknown topic"],
                             !.pc = "done"]
       ELSE ex' = [ex EXCEPT !.topic = topic,
                             !.merchant_id = request_merchant_id(auth_header),
                             !.pc = "open"]
    /\ UNCHANGED <<feed, log, phase, ingest_vars, st, shaper>>

\* Lines 110-128: a reader of the request's own is opened and assigned the
\* partition; seek_to_beginning and seek_to_end give start_offset and
\* end_offset; the reader is left at the start of the window.
export_open ==
    /\ ex.pc = "open"
    /\ LET start_offset == PartitionOf(ex.topic).start
           last_offset == PartitionEnd(ex.topic)
           offset == export_window_start(start_offset, last_offset)
       IN ex' = [ex EXCEPT !.opened = @ + 1,
                           !.seeks = @ + 3,
                           !.start_offset = start_offset,
                           !.end_offset = last_offset,
                           !.seeked = offset,
                           !.offset = offset,
                           !.at = offset,
                           !.pc = "loop"]
    /\ UNCHANGED <<feed, log, phase, ingest_vars, st, shaper>>

\* Line 110 raises (no broker reachable): the handler of line 155 answers.
export_open_fails ==
    /\ ex.pc = "open"
    /\ ex' = [ex EXCEPT !.raised = "NoBrokersAvailable",
                        !.response = export_error_response("NoBrokersAvailable"),
                        !.pc = "done"]
    /\ UNCHANGED <<feed, log, phase, ingest_vars, st, shaper>>

\* Lines 129-143: the reader yields the record at its position; past the end
\* of the window the loop breaks, else the record is counted, decoded and
\* filtered.  Each kept message is tagged with the offset it was read at.
export_next ==
    /\ ex.pc = "loop"
    /\ ex.at >= PartitionOf(ex.topic).start
    /\ ex.at < PartitionEnd(ex.topic)
    /\ LET msg == PartitionOf(ex.topic).recs[ex.at - PartitionOf(ex.topic).start + 1]
           outcome == export_outcome(msg, ex.merchant_id)
       IN IF export_past_end(ex.offset, ex.end_offset)
          THEN ex' = [ex EXCEPT !.at = @ + 1, !.reads = @ + 1, !.pc = "close"]
          ELSE ex' = [ex EXCEPT
                        !.at = @ + 1,
                        !.reads = @ + 1,
                        !.offset = @ + 1,
                        !.decoded = Append(@, msg.offset),
                        !.raised = IF outcome = "TypeError" THEN "TypeError" ELSE @,
                        !.msgs = IF outcome = "kept"
                                 THEN Append(@, [offset |-> msg.offset,
                                                 value |-> json_loads(msg.value)])
                                 ELSE @,
                        !.response = IF outcome = "TypeError"
                                     THEN export_error_response("TypeError")
                                     ELSE @,
                        !.pc = IF outcome = "TypeError" THEN "done" ELSE "loop"]
    /\ UNCHANGED <<feed, log, phase, ingest_vars, st, shaper>>

\* Line 110: consumer_timeout_ms=1000.
consumer_timeout_ms == 1000

\* Mutant of iterator_stops: the reader was opened without a timeout, as the
\* one of line 25, and waits for the next record for ever.
iterator_never_stops(idle_ms) == FALSE

\* The reader's iterator raises StopIteration once no record has arrived for
\* consumer_timeout_ms.
iterator_stops(idle_ms) == idle_ms >= consumer_timeout_ms

\* No record arrived within the timeout: the iteration of line 129 ends and
\* the code after the loop runs.
export_timeout ==
    /\ ex.pc = "loop"
    /\ iterator_stops(consumer_timeout_ms)
    /\ ex' = [ex EXCEPT !.timed_out = TRUE, !.pc = "close"]
    /\ UNCHANGED <<feed, log, phase, ingest_vars, st, shaper>>

\* Lines 144-154: the reader is closed, the messages are shaped and written
\* to a file, whose path is the response.
export_finish ==
    /\ ex.pc = "close"
    /\ IF ex.topic = "marketSituation" /\ market_situation_shaper_raises(ex.msgs)
       THEN ex' = [ex EXCEPT !.closed = @ + 1,
                             !.raised = "KeyError",
                             !.response = export_error_response("KeyError"),
                             !.pc = "done"]
       ELSE ex' = [ex EXCEPT !.closed = @ + 1,
                             !.files = @ + 1,
                             !.response = [kind |-> "url", text |-> "data/" \o ex.topic],
                             !.pc = "done"]
    /\ UNCHANGED <<feed, log, phase, ingest_vars, st, shaper>>

\* Line 153 raises (the file cannot be written).
export_write_fails ==
    /\ ex.pc = "close"
    /\ ~(ex.topic = "marketSituation" /\ market_situation_shaper_raises(ex.msgs))
    /\ ex' = [ex EXCEPT !.closed = @ + 1,
                        !.raised = "OSError",
                        !.response = export_error_response("OSError"),
                        !.pc = "done"]
    /\ UNCHANGED <<feed, log, phase, ingest_vars, st, shaper>>

Next ==
    \/ \E t \in Topics : Produce(t)
    \/ KafkaHandler_init
    \/ \E t \in Topics : run_offset_reset(t)
    \/ \E t \in Topics : run_fetch(t)
    \/ run_emit
    \/ \E s \in Subscribers : connect(s)
    \/ \E s \in Subscribers : on_connect_snapshot(s)
    \/ \E s \in Subscribers : on_connect_emit(s)

\* The ingestion thread and the subscribers.
Spec == Init /\ [][Next]_vars

NextExport ==
    \/ \E t \in Topics : Produce(t)
    \/ KafkaHandler_init
    \/ \E topic \in ExportTopics, auth_header \in AuthHeaders :
         export_request(topic, auth_header)
    \/ export_open
    \/ export_open_fails
    \/ export_next
    \/ export_timeout
    \/ export_finish
    \/ export_write_fails

\* Two clients; only the first topic has traffic, which starts with accepted
\* payloads or with one that fails.
InitConnect ==
    /\ feed \in {0, 4}
    /\ log = [t \in Topics |-> [start |-> 0, recs |-> <<>>]]
    /\ phase = "boot"
    /\ end_offset = [t \in Topics |-> 0]
    /\ first = [t \in Topics |-> 0]
    /\ position = [t \in Topics |-> 0]
    /\ dumps = [t \in Topics |-> <<>>]
    /\ run_pc = "fetch"
    /\ run_out = NoOutput
    /\ subs = [s \in Clients |->
                 [pc |-> "idle", registered |-> FALSE, idx |-> 1,
                  messages |-> <<>>, inbox |-> <<>>,
                  since |-> [t \in Topics |-> 0], pending |-> NoOutput]]
    /\ ex = NoExport
    /\ st = NoStatus
    /\ shaper = NoShaper

NextConnect ==
    \/ Produce(topics[1])
    \/ KafkaHandler_init
    \/ \E t \in Topics : run_fetch(t)
    \/ run_emit
    \/ \E s \in Clients : connect(s)
    \/ \E s \in Clients : on_connect_snapshot(s)
    \/ \E s \in Clients : on_connect_emit(s)

SpecConnect == InitConnect /\ [][NextConnect]_vars

\* An export request, while the producers keep appending.
SpecExport == Init /\ [][NextExport]_vars

\* The request's thread keeps running: a step of the export that can be
\* taken is taken.
ExportStep ==
    \/ export_open
    \/ export_open_fails
    \/ export_next
    \/ export_timeout
    \/ export_finish
    \/ export_write_fails

SpecExportFair == SpecExport /\ WF_vars(ExportStep)

\* An export request next to the running ingestion thread; the producers'
\* traffic starts where the feed has a payload that is not a JSON object.
InitExportIngest == Init /\ feed = 3

NextExportIngest ==
    \/ \E t \in Topics : Produce(t)
    \/ KafkaHandler_init
    \/ \E t \in Topics : run_offset_reset(t)
    \/ \E t \in Topics : run_fetch(t)
    \/ run_emit
    \/ \E topic \in ExportTopics, auth_header \in AuthHeaders :
         export_request(topic, auth_header)
    \/ export_open
    \/ export_open_fails
    \/ export_next
    \/ export_timeout
    \/ export_finish
    \/ export_write_fails

SpecExportIngest == InitExportIngest /\ [][NextExportIngest]_vars

(***************************************************************************)
(* KafkaHandler.status, lines 73-80, next to the ingestion thread.  The    *)
(* entry of a topic is built in three reads of the topic's deque.          *)
(***************************************************************************)
\* The empty string that stands for "no last message".
NoMessage == [empty |-> TRUE, message |-> NoOutput]

\* GET /status arrives.
status_request ==
    /\ phase = "serving"
    /\ st.pc = "idle"
    /\ st' = [st EXCEPT !.pc = "len", !.idx = 1]
    /\ UNCHANGED <<feed, log, phase, ingest_vars, ex, shaper>>

\* Line 77: len(self.dumps[topic]).
status_len ==
    /\ st.pc = "len"
    /\ st' = [st EXCEPT !.messages = Len(dumps[topics[st.idx]]), !.pc = "truth"]
    /\ UNCHANGED <<feed, log, phase, ingest_vars, ex, shaper>>

\* Line 78, the condition: if self.dumps[topic].
status_truth ==
    /\ st.pc = "truth"
    /\ st' = [st EXCEPT !.nonempty = (dumps[topics[st.idx]] # <<>>), !.pc = "last"]
    /\ UNCHANGED <<feed, log, phase, ingest_vars, ex, shaper>>

\* Line 78, the value: self.dumps[topic][-1], or ''; the entry is stored and
\* the loop of line 75 moves on; after the last topic the dict is returned.
status_last ==
    /\ st.pc = "last"
    /\ LET d == dumps[topics[st.idx]]
           last_message == IF st.nonempty
                           THEN [empty |-> FALSE, message |-> d[Len(d)]]
                           ELSE NoMessage
       IN st' = [st EXCEPT
                   !.status_dict = Append(@, [topic |-> topics[st.idx],
                                              messages |-> st.messages,
                                              last_message |-> last_message]),
                   !.idx = @ + 1,
                   !.pc = IF st.idx < Len(topics) THEN "len" ELSE "done"]
    /\ UNCHANGED <<feed, log, phase, ingest_vars, ex, shaper>>

NextStatus ==
    \/ \E t \in Topics : Produce(t)
    \/ KafkaHandler_init
    \/ \E t \in Topics : run_offset_reset(t)
    \/ \E t \in Topics : run_fetch(t)
    \/ run_emit
    \/ status_request
    \/ status_len
    \/ status_truth
    \/ status_last

\* A status request next to the running ingestion thread.
SpecStatus == Init /\ [][NextStatus]_vars

(***************************************************************************)
(* market_situation_shaper, lines 169-194, on its own.  A message and an   *)
(* offer are dicts: functions from their keys to their values.             *)
(***************************************************************************)
\* Offers over all messages of a call, and messages of a call.
MaxOffers == 3

MaxMsgs == 2

\* Offers as the marketplace writes them, with fields of the names the
\* shaper sets.
Offers ==
    {[offer_id |-> "o1", merchant_id |-> "m2", timestamp |-> 7],
     [offer_id |-> "o2", triggering_merchant_id |-> "m9"]}

OfferLists == UNION {[1..n -> Offers] : n \in 0..MaxOffers}

\* Messages less their offers: with a merchant_id, without one, with a null
\* one, each with a timestamp; one without a timestamp; and one that has no
\* 'offers' at all.
Parents ==
    {[timestamp |-> 42, merchant_id |-> "m1", http_code |-> 200],
     [timestamp |-> 43],
     [timestamp |-> 44, merchant_id |-> None],
     [merchant_id |-> "m1"],
     [timestamp |-> 45, merchant_id |-> "m1", offers |-> None]}

RECURSIVE SumLen(_)
SumLen(lists) ==
    IF lists = <<>> THEN 0 ELSE Len(Head(lists)) + SumLen(Tail(lists))

\* dict with one key set, as d[key] = value leaves it.
dict_set(d, key, value) ==
    [k \in DOMAIN d \cup {key} |-> IF k = key THEN value ELSE d[k]]

\* A message of the topic: its own fields and its list of offers; the last
\* of Parents stands for a message without the key.
Situation(parent, offers) ==
    IF "offers" \in DOMAIN parent
    THEN [k \in DOMAIN parent \ {"offers"} |-> parent[k]]
    ELSE dict_set(parent, "offers", offers)

\* Mutant of shape_offer: the triggering merchant is written whether or not
\* the message has one (None when it has none).
shape_offer_always_tagged(situation, offer) ==
    dict_set(dict_set(offer, "timestamp", situation["timestamp"]),
             "triggering_merchant_id",
             IF "merchant_id" \in DOMAIN situation
             THEN situation["merchant_id"] ELSE None)

\* Lines 190-192: the body of the inner loop.
shape_offer(situation, offer) ==
    LET stamped == dict_set(offer, "timestamp", situation["timestamp"]) IN
    IF "merchant_id" \in DOMAIN situation
    THEN dict_set(stamped, "triggering_merchant_id", situation["merchant_id"])
    ELSE stamped

\* Lines 189-190: situation['offers'] and, once there is an offer,
\* situation['timestamp'] raise KeyError on a message without the key.
situation_raises(situation) ==
    IF "offers" \notin DOMAIN situation THEN TRUE
    ELSE situation["offers"] # <<>> /\ "timestamp" \notin DOMAIN situation

RECURSIVE expand_offers(_)
\* Lines 187-193: the rows of the messages, in order.
expand_offers(list_of_msgs) ==
    IF list_of_msgs = <<>> THEN <<>>
    ELSE LET situation == Head(list_of_msgs) IN
         [i \in 1..Len(situation["offers"]) |->
             shape_offer(situation, situation["offers"][i])]
         \o expand_offers(Tail(list_of_msgs))

InitShaper ==
    /\ feed = 0
    /\ log = [t \in Topics |-> [start |-> 0, recs |-> <<>>]]
    /\ phase = "boot"
    /\ end_offset = [t \in Topics |-> 0]
    /\ first = [t \in Topics |-> 0]
    /\ position = [t \in Topics |-> 0]
    /\ dumps = [t \in Topics |-> <<>>]
    /\ run_pc = "fetch"
    /\ run_out = NoOutput
    /\ subs = [s \in Subscribers |->
                 [pc |-> "idle", registered |-> FALSE, idx |-> 1,
                  messages |-> <<>>, inbox |-> <<>>,
                  since |-> [t \in Topics |-> 0], pending |-> NoOutput]]
    /\ ex = NoExport
    /\ st = NoStatus
    /\ \E n \in 0..MaxMsgs : \E offers \in [1..n -> OfferLists] :
         /\ SumLen(offers) <= MaxOffers
         /\ \E parents \in [1..n -> Parents] :
              /\ \A i \in 1..n : "offers" \in DOMAIN parents[i] => offers[i] = <<>>
              /\ shaper = [pc |-> "called",
                           list_of_msgs |-> [i \in 1..n |-> Situation(parents[i], offers[i])],
                           expanded_offers |-> <<>>]

\* market_situation_shaper returns the table of the expanded offers.
market_situation_shaper ==
    /\ shaper.pc = "called"
    /\ \A i \in 1..Len(shaper.list_of_msgs) : ~situation_raises(shaper.list_of_msgs[i])
    /\ shaper' = [shaper EXCEPT !.pc = "returned",
                                !.expanded_offers = expand_offers(shaper.list_of_msgs)]
    /\ UNCHANGED <<feed, log, phase, ingest_vars, ex, st>>

\* market_situation_shaper raises KeyError at the first message that lacks a
\* key it reads.
market_situation_shaper_KeyError ==
    /\ shaper.pc = "called"
    /\ \E i \in 1..Len(shaper.list_of_msgs) : situation_raises(shaper.list_of_msgs[i])
    /\ shaper' = [shaper EXCEPT !.pc = "raised"]
    /\ UNCHANGED <<feed, log, phase, ingest_vars, ex, st>>

NextShaper ==
    \/ market_situation_shaper
    \/ market_situation_shaper_KeyError

SpecShaper == InitShaper /\ [][NextShaper]_vars

(***************************************************************************)
(* What the claims speak of.                                               *)
(***************************************************************************)
LastN(seq, n) == SubSeq(seq, Max(1, Len(seq) - n + 1), Len(seq))

\* The records the ingestion consumer has yielded so far, in offset order.
Consumed(t) ==
    SubSeq(log[t].recs, first[t] - log[t].start + 1, position[t] - log[t].start)

\* The messages run() has accepted so far for a topic, in arrival order.
AcceptedOf(t) ==
    LET IsAccepted(msg) == run_outcome(msg) = "accepted"
        kept == SelectSeq(Consumed(t), IsAccepted)
    IN [i \in 1..Len(kept) |-> run_output(t, kept[i])]

\* The messages a packet carries, as the client reads them.
PacketMessages(packet) ==
    IF packet.kind = "live" THEN <<json_parse(packet.data[1])>> ELSE packet.data

\* A decoded payload with an http_code field other than 200.
HasErrorCode(value) ==
    /\ value.type = "dict"
    /\ "http_code" \in DOMAIN value.fields
    /\ value.fields["http_code"] # "int:200"

\* The live messages of a topic in a client's channel, in delivery order.
LiveOf(s, t) ==
    LET IsLive(packet) == packet.kind = "live" /\ packet.event = t
        got == SelectSeq(subs[s].inbox, IsLive)
    IN [i \in 1..Len(got) |-> json_parse(got[i].data[1])]

\* Where a topic's batch sits in a channel, 0 when it is not there.
BatchIndex(inbox, t) ==
    LET at == {i \in 1..Len(inbox) : inbox[i].kind = "batch" /\ inbox[i].event = t}
    IN IF at = {} THEN 0 ELSE CHOOSE i \in at : \A j \in at : i <= j

IndexIn(seq, x) == CHOOSE i \in 1..Len(seq) : seq[i] = x

\* C1: in every reachable state and for every topic, the deque holds at most
\* maxlen messages, and they are exactly the most recent (up to maxlen)
\* messages run() accepted for that topic, in arrival order.
C1_BufferIsRecentAccepted ==
    \A t \in Topics :
        /\ Len(dumps[t]) <= maxlen
        /\ dumps[t] = LastN(AcceptedOf(t), maxlen)

\* C1 witness: run() accepted more messages than the deque holds, so the
\* oldest was evicted.
C1_Evicted ==
    \E t \in Topics : Len(AcceptedOf(t)) > maxlen /\ Len(dumps[t]) = maxlen

\* C2: a record whose decoded payload has an http_code other than 200 is
\* never in a deque, in a snapshot or in anything sent to a subscriber.
C2_ErrorCodeNeverStoredOrSent ==
    /\ \A t \in Topics : \A i \in 1..Len(dumps[t]) : ~HasErrorCode(dumps[t][i].value)
    /\ \A s \in Subscribers :
         /\ \A i \in 1..Len(subs[s].messages) : ~HasErrorCode(subs[s].messages[i].value)
         /\ \A i \in 1..Len(subs[s].inbox) :
              LET got == PacketMessages(subs[s].inbox[i]) IN
              \A j \in 1..Len(got) : ~HasErrorCode(got[j].value)

\* C2 witness: run() has consumed a record with http_code 404 of a topic
\* whose other messages were stored and sent to a connected subscriber.
C2_ErrorCodeConsumed ==
    \E t \in Topics, s \in Subscribers :
        /\ \E i \in 1..Len(Consumed(t)) : Consumed(t)[i].value = P_m2_404
        /\ dumps[t] # <<>>
        /\ LiveOf(s, t) # <<>>
        /\ BatchIndex(subs[s].inbox, t) > 0

\* C3 (as claimed): for a topic whose partition held only accepted records
\* at startup and has received none since, every batch on_connect delivers
\* holds exactly the last min(k, maxlen) of them, in order.
C3_Claim ==
    \A s \in Subscribers : \A i \in 1..Len(subs[s].inbox) :
        LET packet == subs[s].inbox[i]
            t == packet.event
        IN (/\ packet.kind = "batch"
            /\ LogEnd(t) = end_offset[t]
            /\ \A j \in 1..Len(log[t].recs) : run_outcome(log[t].recs[j]) = "accepted")
           => packet.data =
                LastN([j \in 1..Len(log[t].recs) |-> run_output(t, log[t].recs[j])],
                      maxlen)

\* C4: the live messages of a topic reach a subscriber in the order run()
\* accepted them: each is an accepted message, and of two of them the one
\* accepted first is delivered first.
C4_LiveInArrivalOrder ==
    \A s \in Subscribers, t \in Topics :
        LET live == LiveOf(s, t)
            acc == AcceptedOf(t)
        IN /\ \A i \in 1..Len(live) : \E k \in 1..Len(acc) : acc[k] = live[i]
           /\ \A i, j \in 1..Len(live) :
                i < j => IndexIn(acc, live[i]) < IndexIn(acc, live[j])

\* C4 witness: a subscriber got two live messages of one topic.
C4_TwoLive ==
    \E s \in Subscribers, t \in Topics : Len(LiveOf(s, t)) >= 2

ExportRecordAt(off) ==
    PartitionOf(ex.topic).recs[off - PartitionOf(ex.topic).start + 1]

\* The export kept the record it read at this offset.
Included(off) == \E i \in 1..Len(ex.msgs) : ex.msgs[i].offset = off

\* A payload that is not well-formed structured data: it does not parse, or
\* it parses to something that is not an object.
Malformed(raw) == json_loads(raw).exc # "none" \/ json_loads(raw).type # "dict"

\* C6: the replay starts at max(startOffset, endOffset - max_messages), with
\* startOffset the partition's earliest offset and endOffset an end offset of
\* the partition; so the window starts at or after startOffset, ends at
\* endOffset and spans at most max_messages offsets.
C6_WindowStart ==
    ex.opened > 0 =>
        /\ ex.start_offset = PartitionOf(ex.topic).start
        /\ ex.end_offset >= ex.start_offset
        /\ ex.end_offset <= PartitionEnd(ex.topic)
        /\ ex.seeked = IF ex.end_offset - max_messages > ex.start_offset
                       THEN ex.end_offset - max_messages
                       ELSE ex.start_offset
        /\ ex.seeked >= ex.start_offset
        /\ ex.seeked <= ex.end_offset
        /\ ex.end_offset - ex.seeked <= max_messages

\* C6 witness: an export of a partition that starts above offset 0 and holds
\* more than max_messages records began at endOffset - max_messages.
C6_WindowShorterThanLog ==
    /\ ex.pc = "done"
    /\ ex.response.kind = "url"
    /\ ex.start_offset > 0
    /\ ex.seeked = ex.end_offset - max_messages
    /\ ex.seeked > ex.start_offset

\* C7: an export never keeps a record read at an offset at or past the
\* endOffset it fixed when it started (nor one before its window).
C7_NothingPastEnd ==
    \A i \in 1..Len(ex.msgs) :
        ex.msgs[i].offset < ex.end_offset /\ ex.msgs[i].offset >= ex.seeked

\* C7 witness: a producer appended after endOffset was read; the export read
\* that record, broke out of the loop and answered with what it had kept.
C7_AppendedWhileExporting ==
    /\ ex.pc = "done"
    /\ ex.response.kind = "url"
    /\ ex.msgs # <<>>
    /\ ex.at > ex.end_offset
    /\ PartitionEnd(ex.topic) > ex.end_offset

\* C8 (as claimed): a decoded record the export has processed is kept if and
\* only if it has no merchant_id field or its merchant_id is the id derived
\* from the caller's credential; with no credential (no id derived), only
\* records without a merchant_id field are kept.
C8_Claim ==
    ex.opened > 0 =>
        \A off \in ex.seeked..(ex.offset - 1) :
            LET msg_json == json_loads(ExportRecordAt(off).value) IN
            ~Malformed(ExportRecordAt(off).value) =>
                (Included(off) <=>
                    \/ ~py_in("merchant_id", msg_json)
                    \/ /\ ex.merchant_id # None
                       /\ msg_json.fields["merchant_id"] = ex.merchant_id)

\* C9: an export request for an unknown topic is answered with the
\* unknown-topic error, and no reader is opened, no seek or read made and no
\* file written for it.
C9_UnknownTopicReadsNothing ==
    (ex.pc # "idle" /\ ex.topic \notin Topics) =>
        /\ ex.pc = "done"
        /\ ex.response = [kind |-> "error", text |-> "unknown topic"]
        /\ ex.opened = 0
        /\ ex.seeks = 0
        /\ ex.reads = 0
        /\ ex.files = 0
        /\ ex.msgs = <<>>

\* C9 witness: a request for an unknown topic was answered.
C9_UnknownTopicAnswered ==
    ex.pc = "done" /\ ex.topic = "unknownTopic"

\* C10 (as claimed): an export whose window holds a malformed record, and
\* which neither timed out nor failed to open, shape or write, skips that
\* record and answers with a locator; every well-formed record of the window
\* that passes the filter is in it.
C10_Claim ==
    (/\ ex.pc = "done"
     /\ ex.opened > 0
     /\ ~ex.timed_out
     /\ ex.response.text \notin {"failed with: KeyError", "failed with: OSError"}
     /\ \E off \in ex.seeked..(ex.end_offset - 1) : Malformed(ExportRecordAt(off).value))
    => /\ ex.response.kind = "url"
       /\ \A off \in ex.seeked..(ex.end_offset - 1) :
            (/\ ~Malformed(ExportRecordAt(off).value)
             /\ export_outcome(ExportRecordAt(off), ex.merchant_id) = "kept")
            => Included(off)

(***************************************************************************)
(* The ingestion loop under failing records.                               *)
(***************************************************************************)
\* A message of a topic, told by its timestamp, is in a sequence of outputs.
HoldsMessage(outputs, t, timestamp) ==
    \E i \in 1..Len(outputs) :
        outputs[i].topic = t /\ outputs[i].timestamp = timestamp

\* The accepted messages of a topic that follow, in the deque's order, the
\* record consumed as number j.
AcceptedAfter(t, j) ==
    LET IsAccepted(msg) == run_outcome(msg) = "accepted" IN
    SelectSeq(SubSeq(Consumed(t), j + 1, Len(Consumed(t))), IsAccepted)

\* C11: a failing record does not end the ingestion loop.  The thread is
\* always at the head of its loop or at its emit; a consumed record that
\* failed to decode or to be processed is in no deque and in nothing sent to
\* a subscriber; and every record accepted after a failed one was appended
\* (it is in the deque unless maxlen later messages displaced it) and, once
\* the emit of line 61 has run, is a live message of an observed client that
\* was connected when it was consumed.
C11_BadRecordDoesNotStopIngestion ==
    /\ run_pc \in {"fetch", "emit"}
    /\ \A t \in Topics : \A j \in 1..Len(Consumed(t)) :
         LET msg == Consumed(t)[j] IN
         /\ run_outcome(msg) = "error" =>
              /\ ~HoldsMessage(dumps[t], t, msg.timestamp)
              /\ \A s \in DOMAIN subs : \A i \in 1..Len(subs[s].inbox) :
                   ~HoldsMessage(PacketMessages(subs[s].inbox[i]), t, msg.timestamp)
         /\ (/\ run_outcome(msg) = "accepted"
             /\ \E i \in 1..(j - 1) : run_outcome(Consumed(t)[i]) = "error") =>
              /\ Len(AcceptedAfter(t, j)) < maxlen =>
                   \E i \in 1..Len(dumps[t]) : dumps[t][i] = run_output(t, msg)
              /\ \A s \in Observed :
                   (/\ subs[s].registered
                    /\ subs[s].since[t] <= msg.offset
                    /\ ~(run_pc = "emit" /\ run_out = run_output(t, msg))) =>
                   \E i \in 1..Len(LiveOf(s, t)) : LiveOf(s, t)[i] = run_output(t, msg)

\* C11 witness: run() consumed a record that failed and then a record it
\* accepted, which is in the deque and was broadcast to a subscriber.
C11_AcceptedAfterFailed ==
    \E t \in Topics, s \in Observed : \E j \in 1..Len(Consumed(t)) :
        /\ run_outcome(Consumed(t)[j]) = "accepted"
        /\ \E i \in 1..(j - 1) : run_outcome(Consumed(t)[i]) = "error"
        /\ \E i \in 1..Len(dumps[t]) : dumps[t][i] = run_output(t, Consumed(t)[j])
        /\ \E i \in 1..Len(LiveOf(s, t)) : LiveOf(s, t)[i] = run_output(t, Consumed(t)[j])

(***************************************************************************)
(* Failing exports.                                                        *)
(***************************************************************************)
\* C12: a failure while an export of a known topic reads, filters, shapes or
\* writes does not leave export_csv_for_topic as an exception: the request
\* finishes, its response is the error response naming the exception, no
\* locator and no file come of it; and the ingestion thread goes on as
\* without the export: no step of the export changes its state, it stays in
\* its loop and every deque holds the most recent accepted messages.
C12_FailureIsAnErrorResponse ==
    /\ [](ex.raised # "none" =>
            /\ ex.topic \in Topics
            /\ ex.pc = "done"
            /\ ex.response.kind = "error"
            /\ ex.response.text = "failed with: " \o ex.raised
            /\ ex.files = 0)
    /\ [](/\ run_pc \in {"fetch", "emit"}
          /\ \A t \in Topics : dumps[t] = LastN(AcceptedOf(t), maxlen))
    /\ [][ex' # ex => UNCHANGED ingest_vars]_vars

\* C12 witness: an export failed on a record of its window while the
\* ingestion thread had messages in a deque.
C12_FailedWhileIngesting ==
    /\ ex.pc = "done"
    /\ ex.raised = "TypeError"
    /\ ex.response.kind = "error"
    /\ \E t \in Topics : dumps[t] # <<>>

(***************************************************************************)
(* on_connect and the other clients.                                       *)
(***************************************************************************)
\* C13: on_connect talks to the connecting client only.  Its step of line 70
\* takes the whole deque of the topic at hand as the snapshot and sends
\* nothing; its step of line 71 adds that snapshot, as one batch under the
\* topic's name, to the connecting client's channel and to no other
\* client's; neither step changes a deque.
C13_OnConnectAnswersOnlyTheConnecting ==
    [][\A s \in DOMAIN subs :
         /\ (subs[s].pc = "snapshot" /\ subs'[s].pc = "emit") =>
              /\ subs'[s].messages = dumps[topics[subs[s].idx]]
              /\ dumps' = dumps
              /\ \A c \in DOMAIN subs : subs'[c].inbox = subs[c].inbox
         /\ (subs[s].pc = "emit" /\ subs'[s].pc # "emit") =>
              /\ subs'[s].inbox =
                   Append(subs[s].inbox, [event |-> topics[subs[s].idx],
                                          kind |-> "batch",
                                          data |-> subs[s].messages])
              /\ dumps' = dumps
              /\ \A c \in DOMAIN subs \ {s} : subs'[c].inbox = subs[c].inbox]_vars

\* C13 witness: a client got a non-empty batch while another client was
\* connected and had got its own.
C13_BatchNextToConnectedClient ==
    \E s, c \in DOMAIN subs :
        /\ s # c
        /\ subs[c].pc = "done"
        /\ subs[s].pc = "done"
        /\ \E i \in 1..Len(subs[s].inbox) :
             /\ subs[s].inbox[i].kind = "batch"
             /\ subs[s].inbox[i].data # <<>>
        /\ \A t \in Topics :
             Cardinality({i \in 1..Len(subs[c].inbox) :
                            subs[c].inbox[i].kind = "batch"
                            /\ subs[c].inbox[i].event = t}) = 1

(***************************************************************************)
(* The idle timeout and the end of an export.                              *)
(***************************************************************************)
\* C14: the idle timeout ends the read loop without raising: the records
\* kept so far stay and the code after the loop runs; unless shaping or
\* writing fails afterwards, the request then ends with a locator and one
\* file.  And every request for a known topic ends, with a locator or with
\* an error response.
C14_TimeoutEndsExportNormally ==
    /\ [][(ex'.timed_out /\ ~ex.timed_out) =>
            /\ ex'.pc = "close"
            /\ ex'.raised = "none"
            /\ ex'.msgs = ex.msgs]_vars
    /\ []((ex.pc = "done" /\ ex.timed_out /\ ex.raised \notin {"KeyError", "OSError"}) =>
            /\ ex.response.kind = "url"
            /\ ex.files = 1)
    /\ []((ex.pc # "idle" /\ ex.topic \in Topics) =>
            <>(ex.pc = "done" /\ ex.response.kind \in {"url", "error"}))

\* C14 witness: an export that had kept nothing timed out and ended with a
\* locator.
C14_TimedOutEmptyExport ==
    /\ ex.pc = "done"
    /\ ex.timed_out
    /\ ex.msgs = <<>>
    /\ ex.response.kind = "url"

(***************************************************************************)
(* The shaper.                                                             *)
(***************************************************************************)
\* The offers of all messages, each with the message it came in, in order.
RECURSIVE NestedOffers(_)
NestedOffers(list_of_msgs) ==
    IF list_of_msgs = <<>> THEN <<>>
    ELSE [i \in 1..Len(Head(list_of_msgs)["offers"]) |->
             [parent |-> Head(list_of_msgs), offer |-> Head(list_of_msgs)["offers"][i]]]
         \o NestedOffers(Tail(list_of_msgs))

\* C15: a returning call of market_situation_shaper gives one row per nested
\* offer of its messages, in order.  A row has its message's timestamp; when
\* the message has a merchant_id the row has it as triggering_merchant_id,
\* and when it has none the shaper gives the row none (the row has the key
\* only if the offer came with it); every other field of the row is the
\* offer's, so that nothing else of the message is in the row.
C15_OneRowPerOffer ==
    shaper.pc = "returned" =>
        LET nested == NestedOffers(shaper.list_of_msgs)
            rows == shaper.expanded_offers
        IN /\ Len(rows) = Len(nested)
           /\ \A i \in 1..Len(nested) :
                LET row == rows[i]
                    parent == nested[i].parent
                    offer == nested[i].offer
                IN /\ row["timestamp"] = parent["timestamp"]
                   /\ "merchant_id" \in DOMAIN parent =>
                        /\ "triggering_merchant_id" \in DOMAIN row
                        /\ row["triggering_merchant_id"] = parent["merchant_id"]
                   /\ "merchant_id" \notin DOMAIN parent =>
                        /\ "triggering_merchant_id" \in DOMAIN row
                             <=> "triggering_merchant_id" \in DOMAIN offer
                        /\ "triggering_merchant_id" \in DOMAIN row =>
                             row["triggering_merchant_id"] = offer["triggering_merchant_id"]
                   /\ DOMAIN row \ {"timestamp", "triggering_merchant_id"}
                        = DOMAIN offer \ {"timestamp", "triggering_merchant_id"}
                   /\ \A k \in DOMAIN row \ {"timestamp", "triggering_merchant_id"} :
                        row[k] = offer[k]

\* C15 witness: a message with three offers, merchant_id "m1" and timestamp
\* 42 gave three rows with that timestamp and triggering_merchant_id "m1".
C15_ThreeOffersThreeRows ==
    /\ shaper.pc = "returned"
    /\ Len(shaper.list_of_msgs) = 1
    /\ "merchant_id" \in DOMAIN shaper.list_of_msgs[1]
    /\ shaper.list_of_msgs[1]["merchant_id"] = "m1"
    /\ Len(shaper.list_of_msgs[1]["offers"]) = 3
    /\ Len(shaper.expanded_offers) = 3
    /\ \A i \in 1..3 :
         /\ shaper.expanded_offers[i]["timestamp"] = 42
         /\ shaper.expanded_offers[i]["triggering_merchant_id"] = "m1"

(***************************************************************************)
(* The window an export replays.                                           *)
(***************************************************************************)
\* The offsets from a up to and not including b, in order.
OffsetRun(a, b) == [i \in 1..(b - a) |-> a + i - 1]

\* C16: an export that ended without an idle timeout and without a record
\* of its window failing handed to the decoder exactly the records at the
\* offsets from max(startOffset, endOffset - max_messages) up to and not
\* including endOffset, each once and in offset order.
C16_ReplaysExactlyTheWindow ==
    (/\ ex.pc = "done"
     /\ ex.opened > 0
     /\ ~ex.timed_out
     /\ \A i \in 1..Len(ex.decoded) :
          export_outcome(ExportRecordAt(ex.decoded[i]), ex.merchant_id)
              \in {"kept", "filtered"})
    => /\ ex.decoded =
            OffsetRun(Max(ex.start_offset, ex.end_offset - max_messages), ex.end_offset)
       /\ ex.reads = Len(ex.decoded) + 1

\* C16 witness: an export without timeout or failing record replayed a
\* window of max_messages records and stopped at a record appended since.
C16_FullWindowReplayed ==
    /\ ex.pc = "done"
    /\ ~ex.timed_out
    /\ ex.raised = "none"
    /\ Len(ex.decoded) = max_messages
    /\ PartitionEnd(ex.topic) > ex.end_offset
    /\ \A i \in 1..Len(ex.decoded) :
         export_outcome(ExportRecordAt(ex.decoded[i]), ex.merchant_id)
             \in {"kept", "filtered"}

(***************************************************************************)
(* Snapshots next to the appending thread.                                 *)
(***************************************************************************)
\* What a topic's deque held when run() had accepted k messages for it.
BufferAfter(t, k) == LastN(SubSeq(AcceptedOf(t), 1, k), maxlen)

IsBufferState(t, messages) ==
    \E k \in 0..Len(AcceptedOf(t)) : messages = BufferAfter(t, k)

\* C17: every snapshot on_connect has taken of a topic's deque, whether
\* still held by the handler or already sent as a batch, is what the deque
\* held at one instant: the last (at most maxlen) of the first k accepted
\* messages of the topic, for some k, in arrival order.
C17_SnapshotIsOneInstant ==
    \A s \in Subscribers :
        /\ subs[s].pc = "emit" =>
             /\ Len(subs[s].messages) <= maxlen
             /\ IsBufferState(topics[subs[s].idx], subs[s].messages)
        /\ \A i \in 1..Len(subs[s].inbox) :
             subs[s].inbox[i].kind = "batch" =>
                 /\ Len(subs[s].inbox[i].data) <= maxlen
                 /\ IsBufferState(subs[s].inbox[i].event, subs[s].inbox[i].data)

\* C17 witness: a batch was taken from a full deque, and the thread has
\* since appended to that deque and evicted the batch's first message.
C17_SnapshotBetweenAppends ==
    \E s \in Subscribers : \E i \in 1..Len(subs[s].inbox) :
        LET packet == subs[s].inbox[i] IN
        /\ packet.kind = "batch"
        /\ Len(packet.data) = maxlen
        /\ Len(dumps[packet.event]) = maxlen
        /\ packet.data[maxlen] = dumps[packet.event][maxlen - 1]

(***************************************************************************)
(* The status query.                                                       *)
(***************************************************************************)
\* C18 (as claimed): every entry of a status response describes one state of
\* its topic's deque: its last_message is empty exactly when its count is 0,
\* and otherwise the deque at some instant had that many messages, with that
\* last_message as the newest.
C18_Claim ==
    \A i \in 1..Len(st.status_dict) :
        LET entry == st.status_dict[i] IN
        /\ entry.last_message.empty <=> entry.messages = 0
        /\ entry.messages > 0 =>
             \E k \in 0..Len(AcceptedOf(entry.topic)) :
                 /\ Len(BufferAfter(entry.topic, k)) = entry.messages
                 /\ BufferAfter(entry.topic, k)[entry.messages] = entry.last_message.message

(***************************************************************************)
(* The reader of an export.                                                *)
(***************************************************************************)
\* C19 (as claimed): when an export request has finished, on whatever path,
\* every reader it opened has been closed.
C19_Claim ==
    ex.pc = "done" => ex.closed = ex.opened

(***************************************************************************)
(* Messages accepted while a subscriber connects.                          *)
(***************************************************************************)
\* The messages of a topic an observed client must not miss: the one run() had
\* appended and not yet emitted when the subscriber connected, and those
\* run() has accepted since; less the one run() is about to emit.
DueTo(s, t) ==
    LET Since(msg) == run_outcome(msg) = "accepted" /\ msg.offset >= subs[s].since[t]
        kept == SelectSeq(Consumed(t), Since)
        all == (IF subs[s].pending.topic = t THEN <<subs[s].pending>> ELSE <<>>)
               \o [i \in 1..Len(kept) |-> run_output(t, kept[i])]
    IN IF run_pc = "emit" /\ run_out.topic = t /\ all # <<>>
       THEN SubSeq(all, 1, Len(all) - 1)
       ELSE all

\* The messages of a topic's batch in a channel; none before it is sent.
BatchOf(s, t) ==
    IF BatchIndex(subs[s].inbox, t) = 0 THEN <<>>
    ELSE subs[s].inbox[BatchIndex(subs[s].inbox, t)].data

IsIn(seq, x) == \E i \in 1..Len(seq) : seq[i] = x

\* C20: once a subscriber's on_connect has sent its batches, every message
\* run() accepted since the subscriber connected (and the one it had then
\* appended but not yet emitted) is in the subscriber's batch of its topic
\* or among the live messages delivered to it, as soon as run() has emitted
\* it.
C20_NothingLostWhileConnecting ==
    \A s \in Observed : \A t \in Topics :
        subs[s].pc = "done" =>
            \A i \in 1..Len(DueTo(s, t)) :
                \/ IsIn(BatchOf(s, t), DueTo(s, t)[i])
                \/ IsIn(LiveOf(s, t), DueTo(s, t)[i])

\* C20 witness: of the messages accepted since a subscriber connected, one
\* went into its batch and a later one, accepted after the snapshot, reached
\* it only as a live message.
C20_BatchAndLive ==
    \E s \in Observed, t \in Topics :
        /\ subs[s].pc = "done"
        /\ \E i, j \in 1..Len(DueTo(s, t)) :
             /\ IsIn(BatchOf(s, t), DueTo(s, t)[i])
             /\ ~IsIn(BatchOf(s, t), DueTo(s, t)[j])
             /\ IsIn(LiveOf(s, t), DueTo(s, t)[j])
====
